---- MODULE Spec2Model ----
(***************************************************************************)
(* jx (c-fraser/jx): the project lifecycle of main.go.                     *)
(*                                                                         *)
(* The registry is config.Projects, a map from project name to project.    *)
(* install, run, upgrade and uninstall work on the registry and on the     *)
(* directories of the cloned repositories.  A call is a sequence of steps  *)
(* cut where the registry or the disk changes, so that the state a call    *)
(* passes through between two such changes is a state of the model.        *)
(*                                                                         *)
(* A string is a sequence of characters; " " is the only white space used. *)
(* A character other than " " stands for a run of non-space characters.    *)
(***************************************************************************)
EXTENDS Integers, Sequences, FiniteSets, TLC

\* ------------------------------------------------------------------ bounds
\* longest list of names given to upgrade / uninstall
MaxArgs == 3
\* longest list of names on the command line of a jx process
MaxCliArgs == 2

\* ------------------------------------------------------------- input sets
SP == " "
\* the string made of one run of non-space characters
Str(w) == << w >>
Names == { Str("p"), Str("q") }
\* a git url: host part, and the last path element split in stem and extension
Urls == { [host |-> "x", stem |-> "p", ext |-> ".git"],
          [host |-> "y", stem |-> "q", ext |-> ""] }
\* values of --build and --execute: not given, blank, a command
BuildInputs == { <<>>, <<SP>> }
ExecuteInputs == { <<>>, <<SP>> }
\* the words that follow the project name on the command line of run
RunExtras == { <<>>, << <<"t">> >>, << <<"t", SP, "u">> >> }

RECURSIVE SeqsUpTo(_, _)
SeqsUpTo(S, n) ==
    IF n = 0 THEN { <<>> }
    ELSE LET shorter == SeqsUpTo(S, n - 1)
         IN shorter \cup { Append(q, x) : q \in { r \in shorter : Len(r) = n - 1 }, x \in S }

\* the words that follow run on the command line
RunInputs == { n \o e : n \in SeqsUpTo(Names, 1), e \in RunExtras }

\* the lists of names given to upgrade and uninstall
NameLists == SeqsUpTo(Names, MaxArgs)

\* the command lines of the jx processes
CliNameLists == SeqsUpTo(Names, MaxCliArgs)
CliNames == Names \cup { <<>> }
CliBuildInputs == { <<>>, <<SP>> }
CliExecuteInputs == { <<>> }
CliFetchResults == {"uptodate", "fail"}
CliRunInputs == { n \o e : n \in SeqsUpTo(Names, 1), e \in { <<>>, << <<"t">> >> } }

\* the commit hashes; NoHead is the result of a repository.Head() that fails
Revs == {1, 2}
NoHead == 0
HeadResults == Revs \cup {NoHead}
FetchResults == {"fetched", "uptodate", "fail"}
GOOS == "linux"

VARIABLES
    conf,       \* config.Projects: name -> project
    disk,       \* directory -> whether it exists (it then holds a cloned repository)
    pc,         \* where the current call stands
    op,         \* the function called last
    args,       \* the arguments of the call in progress
    projects,   \* upgrade, uninstall: the resolved projects
    i,          \* upgrade, uninstall: index of the project being processed
    err,        \* the error returned by the call ("nil": none)
    calls,      \* the external effects of the last step, in order
    file,       \* config.json: whether it exists, and the projects it holds
    appDir,     \* whether the application directory ~/.jx exists
    mpc,        \* where the main goroutine of the jx process stands ("exited": no process)
    cmd,        \* the command line of the jx process
    exitCode,   \* the exit code of the last jx process
    cycle       \* history: the lifecycle of one project that is being followed

core == <<conf, disk, pc, op, args, projects, i, err, calls>>
cli == <<file, appDir, mpc, cmd, exitCode>>
vars == <<core, cli, cycle>>

\* --------------------------------------------------------------- strings
\* strings.Fields: the maximal runs of non-space characters
RECURSIVE FieldsFrom(_, _, _)
FieldsFrom(s, cur, acc) ==
    IF s = <<>>
    THEN IF cur = <<>> THEN acc ELSE Append(acc, cur)
    ELSE IF Head(s) = SP
         THEN FieldsFrom(Tail(s), <<>>, IF cur = <<>> THEN acc ELSE Append(acc, cur))
         ELSE FieldsFrom(Tail(s), Append(cur, Head(s)), acc)

Fields(s) == FieldsFrom(s, <<>>, <<>>)

\* strings.Join(elems, sep)
RECURSIVE Join(_, _)
Join(elems, sep) ==
    IF elems = <<>> THEN <<>>
    ELSE IF Len(elems) = 1 THEN elems[1]
    ELSE elems[1] \o sep \o Join(Tail(elems), sep)

\* ----------------------------------------------------------------- paths
\* the directory of an install: filepath.Join(filepath.Dir(conf.File), base minus extension)
DirectoryOf(url) == Str(url.stem)

Dirs == { DirectoryOf(u) : u \in Urls }

\* the build command used when --build is not given
DefaultBuild(directory) ==
    directory \o << IF GOOS = "windows" THEN "/gradlew.bat" ELSE "/gradlew", SP, "installDist" >>

\* the execute command used when --execute is not given
DefaultExecute(directory, name) ==
    directory \o <<"/build/install/">> \o name \o <<"/bin/">> \o name
        \o (IF GOOS = "windows" THEN <<".exe">> ELSE <<>>)

\* ------------------------------------------------------------ the registry
NoProjects == [n \in {} |-> 0]

\* mutant: the store drops the other entries
PutAlone(c, name, p) == [n \in {name} |-> p]

Put(c, name, p) == [n \in DOMAIN c \cup {name} |-> IF n = name THEN p ELSE c[n]]

\* mutant: the entry is not deleted
DeleteNothing(c, name) == c

Delete(c, name) == [n \in DOMAIN c \ {name} |-> c[n]]

\* mutant: the lookup never finds the name
InstalledNever(c, name) == FALSE

Installed(c, name) == name \in DOMAIN c

\* ------------------------------------------------------------ collaborators
Exists(d, directory) == d[directory]

Call(kind, directory) == [kind |-> kind, dir |-> directory]

\* repository.Fetch() on the repository in directory ended with result
FetchCall(directory, result) == [kind |-> "fetch", dir |-> directory, result |-> result]

\* repository.Head() on the repository in directory returned head
HeadCall(directory, head) == [kind |-> "head", dir |-> directory, rev |-> head]

\* clone(directory, url): fails on a directory that holds a repository already
Clone(d, directory, cloneOk) ==
    IF Exists(d, directory) \/ ~cloneOk
    THEN [disk |-> d, err |-> "CloneError"]
    ELSE [disk |-> [d EXCEPT ![directory] = TRUE], err |-> "nil"]

\* os.RemoveAll(directory): nil when the path is absent; a failed removal leaves the directory
RemoveAll(d, directory, removeOk) ==
    IF ~Exists(d, directory) THEN [disk |-> d, err |-> "nil"]
    ELSE IF removeOk THEN [disk |-> [d EXCEPT ![directory] = FALSE], err |-> "nil"]
    ELSE [disk |-> d, err |-> "RemoveError"]

\* execute(directory, command, interactive); runOk: the child process ran and exited with 0.
\* The call is logged with what cmd.Run() returned.
Execute(d, directory, command, interactive, runOk) ==
    LET argv == Fields(command)
        ok == runOk /\ Exists(d, directory)
    IN IF Len(argv) = 0 THEN [err |-> "EmptyCommand", calls |-> <<>>]
       ELSE [err   |-> IF ok THEN "nil" ELSE "CommandError",
             calls |-> << [kind |-> "exec", dir |-> directory, argv |-> argv,
                           interactive |-> interactive, ok |-> ok] >>]

\* -------------------------------------------------------------- functions
\* mutant: the record is stored without the hash of HEAD
NewProjectNoReference(a, head, build, command) ==
    [Name |-> a.name, Repository |-> a.directory, Url |-> a.url, Reference |-> NoHead,
     Build |-> build, Execute |-> command]

\* the record install stores
NewProject(a, head, build, command) ==
    [Name |-> a.name, Repository |-> a.directory, Url |-> a.url, Reference |-> head,
     Build |-> build, Execute |-> command]

\* what install does with the directory when a step after the clone failed
Rollback(d, directory, removeOk) == RemoveAll(d, directory, removeOk).disk

\* install after a successful clone: Head, the build, then the rollback or the new record
InstallBuilt(c, d, a, head, runOk, removeOk) ==
    LET directory == a.directory
        build == IF a.build = <<>> THEN DefaultBuild(directory) ELSE a.build
        built == Execute(d, directory, build, FALSE, runOk)
        command == IF a.command = <<>> THEN DefaultExecute(directory, a.name) ELSE a.command
    IN IF head = NoHead
       THEN [conf |-> c, disk |-> Rollback(d, directory, removeOk), err |-> "HeadError",
             calls |-> << HeadCall(directory, head), Call("remove", directory) >>]
       ELSE IF built.err # "nil"
       THEN [conf |-> c, disk |-> Rollback(d, directory, removeOk), err |-> built.err,
             calls |-> << HeadCall(directory, head) >> \o built.calls
                          \o << Call("remove", directory) >>]
       ELSE [conf |-> Put(c, a.name, NewProject(a, head, build, command)),
             disk |-> d, err |-> "nil",
             calls |-> << HeadCall(directory, head) >> \o built.calls]

\* mutant: run returns the error of execute
RunResultOfExecute(e) == e

\* what run returns once execute returned e
RunResult(e) == "nil"

\* mutant: run does not look at the directory of the project
RunCommandNoStat(c, d, command, runOk) ==
    IF Len(command) = 0 THEN [err |-> "NameRequired", calls |-> <<>>]
    ELSE LET name == command[1] IN
         IF ~Installed(c, name) THEN [err |-> "NotInstalled", calls |-> <<>>]
         ELSE LET target == c[name]
                  line == Join([command EXCEPT ![1] = target.Execute], <<SP>>)
                  ran == Execute(d, target.Repository, line, TRUE, runOk)
              IN [err |-> RunResult(ran.err), calls |-> ran.calls]

\* run(conf, command...)
RunCommand(c, d, command, runOk) ==
    IF Len(command) = 0 THEN [err |-> "NameRequired", calls |-> <<>>]
    ELSE LET name == command[1] IN
         IF ~Installed(c, name) THEN [err |-> "NotInstalled", calls |-> <<>>]
         ELSE LET target == c[name] IN
              IF ~Exists(d, target.Repository)
              THEN [err |-> "InvalidInstall", calls |-> <<>>]
              ELSE LET line == Join([command EXCEPT ![1] = target.Execute], <<SP>>)
                       ran == Execute(d, target.Repository, line, TRUE, runOk)
                   IN [err |-> RunResult(ran.err), calls |-> ran.calls]

\* mutant: a name that is not installed is skipped
RECURSIVE ResolveSkipsMissing(_, _)
ResolveSkipsMissing(c, names) ==
    IF names = <<>> THEN [err |-> "nil", projects |-> <<>>]
    ELSE LET rest == ResolveSkipsMissing(c, Tail(names)) IN
         IF ~Installed(c, Head(names)) THEN rest
         ELSE [err |-> "nil",
               projects |-> << [c[Head(names)] EXCEPT !.Name = Head(names)] >> \o rest.projects]

\* the first loop of upgrade and of uninstall: every name is looked up before any is processed
RECURSIVE Resolve(_, _)
Resolve(c, names) ==
    IF names = <<>> THEN [err |-> "nil", projects |-> <<>>]
    ELSE IF ~Installed(c, Head(names)) THEN [err |-> "NotInstalled", projects |-> <<>>]
    ELSE LET rest == Resolve(c, Tail(names)) IN
         IF rest.err # "nil" THEN rest
         ELSE [err |-> "nil",
               projects |-> << [c[Head(names)] EXCEPT !.Name = Head(names)] >> \o rest.projects]

\* mutant: "already up to date" is taken for a failure of the fetch
UpgradeProjectStrictFetch(c, d, p, fetch, runOk, head) ==
    LET built == Execute(d, p.Repository, p.Build, FALSE, runOk) IN
    IF ~Exists(d, p.Repository)
    THEN [conf |-> c, err |-> "OpenError", calls |-> << Call("open", p.Repository) >>]
    ELSE IF fetch # "fetched"
    THEN [conf |-> c, err |-> "FetchError",
          calls |-> << Call("open", p.Repository), FetchCall(p.Repository, fetch) >>]
    ELSE IF built.err # "nil"
    THEN [conf |-> c, err |-> built.err,
          calls |-> << Call("open", p.Repository), FetchCall(p.Repository, fetch) >>
                       \o built.calls]
    ELSE [conf  |-> IF head = NoHead THEN c ELSE Put(c, p.Name, [p EXCEPT !.Reference = head]),
          err   |-> "nil",
          calls |-> << Call("open", p.Repository), FetchCall(p.Repository, fetch) >>
                       \o built.calls \o << HeadCall(p.Repository, head) >>]

\* mutant: a repository.Head() that fails after the build ends upgrade with the error
UpgradeProjectHeadFatal(c, d, p, fetch, runOk, head) ==
    LET built == Execute(d, p.Repository, p.Build, FALSE, runOk) IN
    IF ~Exists(d, p.Repository)
    THEN [conf |-> c, err |-> "OpenError", calls |-> << Call("open", p.Repository) >>]
    ELSE IF fetch = "fail"
    THEN [conf |-> c, err |-> "FetchError",
          calls |-> << Call("open", p.Repository), FetchCall(p.Repository, fetch) >>]
    ELSE IF built.err # "nil"
    THEN [conf |-> c, err |-> built.err,
          calls |-> << Call("open", p.Repository), FetchCall(p.Repository, fetch) >>
                       \o built.calls]
    ELSE [conf  |-> IF head = NoHead THEN c ELSE Put(c, p.Name, [p EXCEPT !.Reference = head]),
          err   |-> IF head = NoHead THEN "HeadError" ELSE "nil",
          calls |-> << Call("open", p.Repository), FetchCall(p.Repository, fetch) >>
                       \o built.calls \o << HeadCall(p.Repository, head) >>]

\* one iteration of the second loop of upgrade, for project p
UpgradeProject(c, d, p, fetch, runOk, head) ==
    LET built == Execute(d, p.Repository, p.Build, FALSE, runOk) IN
    IF ~Exists(d, p.Repository)
    THEN [conf |-> c, err |-> "OpenError", calls |-> << Call("open", p.Repository) >>]
    ELSE IF fetch = "fail"
    THEN [conf |-> c, err |-> "FetchError",
          calls |-> << Call("open", p.Repository), FetchCall(p.Repository, fetch) >>]
    ELSE IF built.err # "nil"
    THEN [conf |-> c, err |-> built.err,
          calls |-> << Call("open", p.Repository), FetchCall(p.Repository, fetch) >>
                       \o built.calls]
    ELSE [conf  |-> IF head = NoHead THEN c ELSE Put(c, p.Name, [p EXCEPT !.Reference = head]),
          err   |-> "nil",
          calls |-> << Call("open", p.Repository), FetchCall(p.Repository, fetch) >>
                       \o built.calls \o << HeadCall(p.Repository, head) >>]

\* ------------------------------------------------------------ persistence
NoFile == [exists |-> FALSE, projects |-> NoProjects]

NoCommand == [op |-> "none"]

\* json.Marshal of config.Projects: Name is not written
Marshal(c) ==
    [n \in DOMAIN c |-> [repository |-> c[n].Repository, url |-> c[n].Url,
                         reference |-> c[n].Reference, build |-> c[n].Build,
                         execute |-> c[n].Execute]]

\* mutant: the reference is not read back
UnmarshalNoReference(f) ==
    [n \in DOMAIN f |-> [Name |-> <<>>, Repository |-> f[n].repository, Url |-> f[n].url,
                         Reference |-> NoHead, Build |-> f[n].build,
                         Execute |-> f[n].execute]]

\* json.Unmarshal into config.Projects: Name keeps its zero value
Unmarshal(f) ==
    [n \in DOMAIN f |-> [Name |-> <<>>, Repository |-> f[n].repository, Url |-> f[n].url,
                         Reference |-> f[n].reference, Build |-> f[n].build,
                         Execute |-> f[n].execute]]

\* config.read: the projects of config.json, none when there is no file
ReadConfig(f) == IF f.exists THEN Unmarshal(f.projects) ELSE NoProjects

\* config.write: with no project the application directory goes, with all it holds
WriteConfig(c, f, d, a, removeOk) ==
    IF DOMAIN c = {}
    THEN IF a /\ ~removeOk
         THEN [file |-> f, disk |-> d, appDir |-> a]
         ELSE [file |-> NoFile, disk |-> [x \in DOMAIN d |-> FALSE], appDir |-> FALSE]
    ELSE [file |-> [exists |-> TRUE, projects |-> Marshal(c)], disk |-> d, appDir |-> a]

\* mutant: main ignores the error of app.Run
ExitCodeZero(e) == 0

\* the exit code of main when app.Run returned e
ExitCode(e) == IF e = "nil" THEN 0 ELSE 1

\* ------------------------------------------------------------------ calls
\* no lifecycle is followed
NoCycle == [phase |-> "off"]

Ready == pc \in {"idle", "returned"}

Init ==
    /\ conf = NoProjects
    /\ disk = [d \in Dirs |-> FALSE]
    /\ pc = "idle"
    /\ op = "none"
    /\ args = <<>>
    /\ projects = <<>>
    /\ i = 0
    /\ err = "nil"
    /\ calls = <<>>
    /\ file = NoFile
    /\ appDir = FALSE
    /\ mpc = "exited"
    /\ cmd = NoCommand
    /\ exitCode = 0
    /\ cycle = NoCycle

\* a call of f starts
Enter(f) ==
    /\ Ready
    /\ op' = f

\* the call goes on at label l
Goto(l) ==
    /\ pc' = l
    /\ err' = "nil"

\* the call returns e; its arguments and local variables are gone
Return(e) ==
    /\ pc' = "returned"
    /\ err' = e
    /\ args' = <<>>
    /\ projects' = <<>>
    /\ i' = 0

\* install, to the end of clone
InstallClone(url, directory, name, build, command, cloneOk) ==
    /\ Enter("install")
    /\ UNCHANGED conf
    /\ IF Installed(conf, name)
       THEN /\ Return("AlreadyInstalled")
            /\ calls' = <<>>
            /\ UNCHANGED disk
       ELSE LET cloned == Clone(disk, directory, cloneOk) IN
            /\ calls' = << Call("clone", directory) >>
            /\ disk' = cloned.disk
            /\ IF cloned.err # "nil"
               THEN Return(cloned.err)
               ELSE /\ Goto("install.cloned")
                    /\ args' = [url |-> url, directory |-> directory, name |-> name,
                                build |-> build, command |-> command]
                    /\ UNCHANGED <<projects, i>>

\* install, from repository.Head() to the return
InstallBuild(head, runOk, removeOk) ==
    /\ pc = "install.cloned"
    /\ LET r == InstallBuilt(conf, disk, args, head, runOk, removeOk) IN
       /\ conf' = r.conf
       /\ disk' = r.disk
       /\ calls' = r.calls
       /\ Return(r.err)
    /\ UNCHANGED op

\* run, the whole function
Run(command, runOk) ==
    /\ Enter("run")
    /\ LET r == RunCommand(conf, disk, command, runOk) IN
       /\ calls' = r.calls
       /\ Return(r.err)
    /\ UNCHANGED <<conf, disk>>

\* upgrade and uninstall, to the end of the first loop
Validate(f, names) ==
    /\ Enter(f)
    /\ calls' = <<>>
    /\ UNCHANGED <<conf, disk>>
    /\ IF Len(names) = 0
       THEN Return("NameRequired")
       ELSE LET r == Resolve(conf, names) IN
            IF r.err # "nil"
            THEN Return(r.err)
            ELSE /\ Goto(f \o ".loop")
                 /\ args' = [names |-> names]
                 /\ projects' = r.projects
                 /\ i' = 1

\* the loop goes on to the next project, or the function returns nil after the last
Advance(loop) ==
    IF i < Len(projects)
    THEN Goto(loop) /\ i' = i + 1 /\ UNCHANGED <<args, projects>>
    ELSE Return("nil")

UpgradeCall(names) == Validate("upgrade", names)

\* upgrade: one iteration of the second loop
UpgradeStep(fetch, runOk, head) ==
    /\ pc = "upgrade.loop"
    /\ LET r == UpgradeProject(conf, disk, projects[i], fetch, runOk, head) IN
       /\ conf' = r.conf
       /\ calls' = r.calls
       /\ IF r.err # "nil" THEN Return(r.err) ELSE Advance("upgrade.loop")
    /\ UNCHANGED <<disk, op>>

UninstallCall(names) == Validate("uninstall", names)

\* mutant: the error of os.RemoveAll is dropped and the entry deleted all the same
UninstallRemoveIgnoresError(removeOk) ==
    /\ pc = "uninstall.loop"
    /\ disk' = RemoveAll(disk, projects[i].Repository, removeOk).disk
    /\ calls' = << Call("remove", projects[i].Repository) >>
    /\ Goto("uninstall.delete")
    /\ UNCHANGED <<conf, op, args, projects, i>>

\* uninstall: os.RemoveAll of one iteration of the second loop
UninstallRemove(removeOk) ==
    /\ pc = "uninstall.loop"
    /\ LET r == RemoveAll(disk, projects[i].Repository, removeOk) IN
       /\ disk' = r.disk
       /\ calls' = << Call("remove", projects[i].Repository) >>
       /\ IF r.err # "nil"
          THEN Return(r.err)
          ELSE Goto("uninstall.delete") /\ UNCHANGED <<args, projects, i>>
    /\ UNCHANGED <<conf, op>>

\* uninstall: the delete of the same iteration
UninstallDelete ==
    /\ pc = "uninstall.delete"
    /\ conf' = Delete(conf, projects[i].Name)
    /\ calls' = <<>>
    /\ Advance("uninstall.loop")
    /\ UNCHANGED <<disk, op>>

\* ------------------------------------------------------------ environment
\* between two calls, a directory is deleted by something other than jx
ExternalRemove(directory) ==
    /\ Ready
    /\ Exists(disk, directory)
    /\ disk' = [disk EXCEPT ![directory] = FALSE]
    /\ pc' = "idle"
    /\ op' = "none"
    /\ err' = "nil"
    /\ calls' = <<>>
    /\ UNCHANGED <<conf, args, projects, i>>

\* ---------------------------------------------------------- specification
\* Spec: the functions called one after the other on one config, as the tests call them
DoInstall ==
    /\ \E url \in Urls, name \in Names, build \in BuildInputs, command \in ExecuteInputs,
          cloneOk \in BOOLEAN :
           InstallClone(url, DirectoryOf(url), name, build, command, cloneOk)
    /\ UNCHANGED <<cli, cycle>>

DoInstallBuild ==
    /\ \E head \in HeadResults, runOk, removeOk \in BOOLEAN : InstallBuild(head, runOk, removeOk)
    /\ UNCHANGED <<cli, cycle>>

DoRun ==
    /\ \E command \in RunInputs, runOk \in BOOLEAN : Run(command, runOk)
    /\ UNCHANGED <<cli, cycle>>

DoUpgrade ==
    /\ \E names \in NameLists : UpgradeCall(names)
    /\ UNCHANGED <<cli, cycle>>

DoUpgradeStep ==
    /\ \E fetch \in FetchResults, runOk \in BOOLEAN, head \in HeadResults :
           UpgradeStep(fetch, runOk, head)
    /\ UNCHANGED <<cli, cycle>>

DoUninstall ==
    /\ \E names \in NameLists : UninstallCall(names)
    /\ UNCHANGED <<cli, cycle>>

DoUninstallRemove ==
    /\ \E removeOk \in BOOLEAN : UninstallRemove(removeOk)
    /\ UNCHANGED <<cli, cycle>>

DoUninstallDelete ==
    /\ UninstallDelete
    /\ UNCHANGED <<cli, cycle>>

DoExternalRemove ==
    /\ \E directory \in Dirs : ExternalRemove(directory)
    /\ UNCHANGED <<cli, cycle>>

Next ==
    \/ DoInstall
    \/ DoInstallBuild
    \/ DoRun
    \/ DoUpgrade
    \/ DoUpgradeStep
    \/ DoUninstall
    \/ DoUninstallRemove
    \/ DoUninstallDelete
    \/ DoExternalRemove

Spec == Init /\ [][Next]_vars

\* SpecClosed: the same calls when nothing but jx changes the directories
ClosedNext ==
    \/ DoInstall
    \/ DoInstallBuild
    \/ DoRun
    \/ DoUpgrade
    \/ DoUpgradeStep
    \/ DoUninstall
    \/ DoUninstallRemove
    \/ DoUninstallDelete

SpecClosed == Init /\ [][ClosedNext]_vars

\* ------------------------------------------------------------ the process
\* One jx process: main reads the config, runs the command and writes the config.
\* install, upgrade and uninstall run in a goroutine started by display, while the main
\* goroutine runs the terminal program; run is called by the main goroutine itself.
\* The fatal errors of config.read and of os.WriteFile are not modelled.
Alive == mpc # "exited"

\* the process ends with exit code code; what it held in memory is gone
Exit(code) ==
    /\ mpc' = "exited"
    /\ exitCode' = code
    /\ cmd' = NoCommand
    /\ conf' = NoProjects
    /\ pc' = "idle"
    /\ args' = <<>>
    /\ projects' = <<>>
    /\ i' = 0

\* main, for a command that display runs: to the start of program.Run
MainDisplay(c) ==
    /\ ~Alive
    /\ appDir' = TRUE
    /\ conf' = ReadConfig(file)
    /\ mpc' = "display"
    /\ cmd' = c
    /\ pc' = "idle"
    /\ op' = "none"
    /\ err' = "nil"
    /\ calls' = <<>>
    /\ UNCHANGED <<disk, args, projects, i, file, exitCode, cycle>>

\* the command line of install: the directory and the default name come from the url
InstallCommand(url, name, build, command) ==
    [op |-> "install", url |-> url, directory |-> DirectoryOf(url),
     name |-> IF name = <<>> THEN DirectoryOf(url) ELSE name,
     build |-> build, command |-> command]

BatchCommand(f, names) == [op |-> f, names |-> names]

\* main when the java executable is not found
MainNoJava ==
    /\ ~Alive
    /\ exitCode' = 1
    /\ op' = "none"
    /\ err' = "nil"
    /\ calls' = <<>>
    /\ UNCHANGED <<conf, disk, pc, args, projects, i, file, appDir, mpc, cmd, cycle>>

\* main, for the command run: the whole process
MainRun(command, runOk, removeOk) ==
    /\ ~Alive
    /\ LET loaded == ReadConfig(file)
           r == RunCommand(loaded, disk, command, runOk)
           w == WriteConfig(loaded, file, disk, TRUE, removeOk)
       IN /\ op' = "run"
          /\ err' = r.err
          /\ calls' = r.calls
          /\ exitCode' = ExitCode(r.err)
          /\ IF r.err # "nil"
             THEN appDir' = TRUE /\ UNCHANGED <<file, disk>>
             ELSE file' = w.file /\ disk' = w.disk /\ appDir' = w.appDir
    /\ UNCHANGED <<conf, pc, args, projects, i, mpc, cmd, cycle>>

\* the goroutine of display
BgInstallClone(cloneOk) ==
    /\ Alive /\ pc = "idle" /\ cmd.op = "install"
    /\ InstallClone(cmd.url, cmd.directory, cmd.name, cmd.build, cmd.command, cloneOk)
    /\ UNCHANGED <<cli, cycle>>

BgInstallBuild(head, runOk, removeOk) ==
    /\ Alive
    /\ InstallBuild(head, runOk, removeOk)
    /\ UNCHANGED <<cli, cycle>>

BgValidate ==
    /\ Alive /\ pc = "idle" /\ cmd.op \in {"upgrade", "uninstall"}
    /\ Validate(cmd.op, cmd.names)
    /\ UNCHANGED <<cli, cycle>>

BgUpgradeStep(fetch, runOk, head) ==
    /\ Alive
    /\ UpgradeStep(fetch, runOk, head)
    /\ UNCHANGED <<cli, cycle>>

BgUninstallRemove(removeOk) ==
    /\ Alive
    /\ UninstallRemove(removeOk)
    /\ UNCHANGED <<cli, cycle>>

BgUninstallDelete ==
    /\ Alive
    /\ UninstallDelete
    /\ UNCHANGED <<cli, cycle>>

\* model.Update on a key: whether the program quits
QuitKey(key) == key \in {"ctrl+c", "q"}

Keys == {"ctrl+c", "q", "x"}

\* a key is pressed while the program runs; on a quit key display returns nil
DisplayKey(key) ==
    /\ mpc = "display"
    /\ mpc' = IF QuitKey(key) THEN "write" ELSE mpc
    /\ UNCHANGED <<core, file, appDir, cmd, exitCode, cycle>>

\* program.Run returns an error: display returns it and main exits
DisplayFails ==
    /\ mpc = "display"
    /\ Exit(1)
    /\ UNCHANGED <<disk, op, err, calls, file, appDir, cycle>>

\* the message of the goroutine reaches model.Update: display returns what command
\* returned, and main exits with the error or writes the config
DisplayDone(removeOk) ==
    /\ mpc = "display"
    /\ pc = "returned"
    /\ Exit(ExitCode(err))
    /\ LET w == WriteConfig(conf, file, disk, appDir, removeOk) IN
       IF err # "nil"
       THEN UNCHANGED <<file, disk, appDir>>
       ELSE file' = w.file /\ disk' = w.disk /\ appDir' = w.appDir
    /\ UNCHANGED <<op, err, calls, cycle>>

\* main after display returned nil on a quit key: conf.write()
MainWrite(removeOk) ==
    /\ mpc = "write"
    /\ LET w == WriteConfig(conf, file, disk, appDir, removeOk) IN
       file' = w.file /\ disk' = w.disk /\ appDir' = w.appDir
    /\ mpc' = "exit"
    /\ UNCHANGED <<conf, pc, op, args, projects, i, err, calls, cmd, exitCode, cycle>>

\* the goroutine is about to store into conf.Projects, or to delete from it
Mutating == pc \in {"install.cloned", "upgrade.loop", "uninstall.delete"}

\* conf.write() after a quit key while the goroutine writes the map that json.Marshal
\* iterates: the runtime may stop the process ("concurrent map iteration and map write",
\* exit code 2) before the file is written
MainWriteRace ==
    /\ mpc = "write"
    /\ conf # NoProjects
    /\ Mutating
    /\ Exit(2)
    /\ UNCHANGED <<disk, op, err, calls, file, appDir, cycle>>

\* main returns
MainExit ==
    /\ mpc = "exit"
    /\ Exit(0)
    /\ UNCHANGED <<disk, op, err, calls, file, appDir, cycle>>

\* between two processes, a directory is deleted by something other than jx
CliExternalRemove(directory) ==
    /\ ~Alive
    /\ ExternalRemove(directory)
    /\ UNCHANGED <<cli, cycle>>

CliInstall ==
    \E url \in Urls, name \in CliNames, build \in CliBuildInputs,
       command \in CliExecuteInputs :
        MainDisplay(InstallCommand(url, name, build, command))

CliBatch ==
    \E f \in {"upgrade", "uninstall"}, names \in CliNameLists :
        MainDisplay(BatchCommand(f, names))

CliRun ==
    \E command \in CliRunInputs, runOk, removeOk \in BOOLEAN :
        MainRun(command, runOk, removeOk)

CliInstallClone == \E cloneOk \in BOOLEAN : BgInstallClone(cloneOk)

CliInstallBuild ==
    \E head \in HeadResults, runOk, removeOk \in BOOLEAN : BgInstallBuild(head, runOk, removeOk)

CliUpgradeStep ==
    \E fetch \in CliFetchResults, runOk \in BOOLEAN, head \in HeadResults :
        BgUpgradeStep(fetch, runOk, head)

CliUninstallRemove == \E removeOk \in BOOLEAN : BgUninstallRemove(removeOk)

CliKey == \E key \in Keys : DisplayKey(key)

CliDone == \E removeOk \in BOOLEAN : DisplayDone(removeOk)

CliWrite == \E removeOk \in BOOLEAN : MainWrite(removeOk)

CliRemove == \E directory \in Dirs : CliExternalRemove(directory)

CliNext ==
    \/ CliInstall
    \/ CliBatch
    \/ CliRun
    \/ MainNoJava
    \/ CliInstallClone
    \/ CliInstallBuild
    \/ BgValidate
    \/ CliUpgradeStep
    \/ CliUninstallRemove
    \/ BgUninstallDelete
    \/ CliKey
    \/ CliDone
    \/ DisplayFails
    \/ CliWrite
    \/ MainWriteRace
    \/ MainExit
    \/ CliRemove

SpecCLI == Init /\ [][CliNext]_vars

\* ------------------------------------------------------------ a lifecycle
\* SpecCycle: on a registry that earlier calls left, one project is followed through
\* install, run and upgrade any number of times, and uninstall, as TestCommands goes
\* through them.  cycle holds the registry as it was when the install started.

\* the followed lifecycle goes on as next, or ends when the call returns an error
Followed(next) ==
    cycle' = IF pc' = "returned" /\ err' # "nil" THEN NoCycle ELSE next

\* the calls before the lifecycle
CycleBefore ==
    /\ cycle.phase = "off"
    /\ Next

CycleInstall ==
    /\ cycle.phase = "off"
    /\ \E url \in Urls, name \in Names \ DOMAIN conf, build \in BuildInputs,
          command \in ExecuteInputs, cloneOk \in BOOLEAN :
           /\ InstallClone(url, DirectoryOf(url), name, build, command, cloneOk)
           /\ Followed([phase |-> "installing", name |-> name,
                        directory |-> DirectoryOf(url), base |-> conf,
                        ran |-> FALSE, upgraded |-> FALSE])
    /\ UNCHANGED cli

CycleInstallBuild ==
    /\ cycle.phase = "installing"
    /\ \E head \in HeadResults, runOk, removeOk \in BOOLEAN : InstallBuild(head, runOk, removeOk)
    /\ Followed([cycle EXCEPT !.phase = "on"])
    /\ UNCHANGED cli

CycleRun ==
    /\ cycle.phase = "on"
    /\ \E extra \in RunExtras, runOk \in BOOLEAN : Run(<<cycle.name>> \o extra, runOk)
    /\ Followed([cycle EXCEPT !.ran = TRUE])
    /\ UNCHANGED cli

CycleUpgrade ==
    /\ cycle.phase = "on"
    /\ UpgradeCall(<<cycle.name>>)
    /\ Followed(cycle)
    /\ UNCHANGED cli

CycleUpgradeStep ==
    /\ cycle.phase = "on"
    /\ \E fetch \in FetchResults, runOk \in BOOLEAN, head \in HeadResults :
           UpgradeStep(fetch, runOk, head)
    /\ Followed([cycle EXCEPT !.upgraded = TRUE])
    /\ UNCHANGED cli

CycleUninstall ==
    /\ cycle.phase = "on"
    /\ UninstallCall(<<cycle.name>>)
    /\ Followed(cycle)
    /\ UNCHANGED cli

CycleUninstallRemove ==
    /\ cycle.phase = "on"
    /\ \E removeOk \in BOOLEAN : UninstallRemove(removeOk)
    /\ Followed(cycle)
    /\ UNCHANGED cli

CycleUninstallDelete ==
    /\ cycle.phase = "on"
    /\ UninstallDelete
    /\ Followed([cycle EXCEPT !.phase = "done"])
    /\ UNCHANGED cli

\* the lifecycle is over
CycleClose ==
    /\ cycle.phase = "done"
    /\ cycle' = NoCycle
    /\ UNCHANGED <<core, cli>>

CycleNext ==
    \/ CycleBefore
    \/ CycleInstall
    \/ CycleInstallBuild
    \/ CycleRun
    \/ CycleUpgrade
    \/ CycleUpgradeStep
    \/ CycleUninstall
    \/ CycleUninstallRemove
    \/ CycleUninstallDelete
    \/ CycleClose

SpecCycle == Init /\ [][CycleNext]_vars

\* ----------------------------------------------------------------- claims
InstallInputs == Urls \X Names \X BuildInputs \X ExecuteInputs \X BOOLEAN

\* the step is a call of install with name n
InstallOf(n) ==
    /\ Ready /\ op' = "install"
    /\ \E x \in InstallInputs :
          x[2] = n /\ InstallClone(x[1], DirectoryOf(x[1]), x[2], x[3], x[4], x[5])

\* the step is the part of install that follows a successful clone
AfterClone == pc = "install.cloned" /\ pc' = "returned"

\* C1: when install fails after the clone succeeded, the cloned directory is gone and the
\* registry is what it was before the call
C1_FailedInstallRollsBack ==
    [][(AfterClone /\ err' # "nil") => (~Exists(disk', args.directory) /\ conf' = conf)]_vars

\* C2: install of a name that is a key of the registry returns an error, attempts no clone,
\* and leaves the registry and the directories as they were
C2_InstallExistingName ==
    [][\A n \in DOMAIN conf :
          InstallOf(n) => /\ pc' = "returned"
                          /\ err' = "AlreadyInstalled"
                          /\ calls' = <<>>
                          /\ conf' = conf
                          /\ disk' = disk]_vars

C2_Witness == pc = "returned" /\ op = "install" /\ err = "AlreadyInstalled"

\* C3: a successful install adds exactly the entry of its name: repositoryPath is the
\* directory, which exists, sourceUrl is the url, revision is the HEAD read from the clone
\* and is not empty; every other entry is unchanged and the registry has one entry more
C3_InstallAddsOneRecord ==
    [][(AfterClone /\ err' = "nil") =>
          LET n == args.name IN
          /\ n \notin DOMAIN conf
          /\ DOMAIN conf' = DOMAIN conf \cup {n}
          /\ Cardinality(DOMAIN conf') = Cardinality(DOMAIN conf) + 1
          /\ \A m \in DOMAIN conf : conf'[m] = conf[m]
          /\ conf'[n].Repository = args.directory
          /\ Exists(disk', args.directory)
          /\ conf'[n].Url = args.url
          /\ conf'[n].Reference = calls'[1].rev
          /\ calls'[1] = HeadCall(args.directory, conf'[n].Reference)
          /\ conf'[n].Reference \in Revs]_vars

C3_Witness ==
    /\ pc = "returned" /\ op = "install" /\ err = "nil"
    /\ Cardinality(DOMAIN conf) = 2
    /\ \E n, m \in DOMAIN conf : conf[n].Url # conf[m].Url

\* the step is a call of upgrade or uninstall with the list names
BatchOf(names) ==
    /\ Ready /\ op' \in {"upgrade", "uninstall"}
    /\ Validate("upgrade", names) \/ Validate("uninstall", names)

\* C5: upgrade and uninstall with no name, or with a name that is not a key of the registry
\* anywhere in the list, return an error and change no entry and no directory; nothing is
\* fetched, built or deleted
C5_ValidateBeforeMutate ==
    [][\A names \in NameLists :
          ((names = <<>> \/ \E k \in 1..Len(names) : names[k] \notin DOMAIN conf) /\ BatchOf(names))
          => /\ pc' = "returned"
             /\ err' = (IF names = <<>> THEN "NameRequired" ELSE "NotInstalled")
             /\ calls' = <<>>
             /\ conf' = conf
             /\ disk' = disk]_vars

C5_Witness ==
    /\ pc = "returned" /\ op \in {"upgrade", "uninstall"} /\ err = "NotInstalled"
    /\ conf # NoProjects

\* the name of the project at position k is also the name of a project before position j
ListedBefore(k, j) == \E h \in 1..(j - 1) : projects[h].Name = projects[k].Name

\* the projects before position j have neither directory nor registry entry
GoneBefore(c, d, j) ==
    \A k \in 1..(j - 1) : projects[k].Name \notin DOMAIN c /\ ~Exists(d, projects[k].Repository)

\* C6 as stated: when the deletion of project k fails, uninstall returns the error, the
\* projects before k have neither directory nor entry, and project k and every later
\* project still have their entry
C6_AsStated ==
    [][(pc = "uninstall.loop" /\ pc' = "returned" /\ err' # "nil") =>
          /\ GoneBefore(conf', disk', i)
          /\ \A k \in i..Len(projects) :
                projects[k].Name \in DOMAIN conf' /\ conf'[projects[k].Name] = projects[k]]_vars

\* C6, amended: uninstall takes the projects in the order given, deletes the directory and
\* only then the entry; when the deletion of project k fails it returns the error at once,
\* the projects before k have neither directory nor entry, and project k and the later
\* projects that are not listed before k as well have their entry, unchanged
C6_UninstallInOrder ==
    [][/\ pc = "uninstall.loop" =>
            /\ GoneBefore(conf, disk, i)
            /\ \A k \in i..Len(projects) :
                  ListedBefore(k, i) \/
                  (projects[k].Name \in DOMAIN conf /\ conf[projects[k].Name] = projects[k])
            /\ calls' = << Call("remove", projects[i].Repository) >>
            /\ conf' = conf
            /\ IF pc' = "returned"
               THEN err' = "RemoveError" /\ disk' = disk /\ Exists(disk, projects[i].Repository)
               ELSE /\ pc' = "uninstall.delete" /\ i' = i /\ projects' = projects
                    /\ disk' = [disk EXCEPT ![projects[i].Repository] = FALSE]
       /\ pc = "uninstall.delete" =>
            /\ ~Exists(disk, projects[i].Repository)
            /\ conf' = Delete(conf, projects[i].Name)
            /\ disk' = disk
            /\ calls' = <<>>
            /\ IF i < Len(projects)
               THEN pc' = "uninstall.loop" /\ i' = i + 1 /\ projects' = projects
               ELSE pc' = "returned" /\ err' = "nil" /\ GoneBefore(conf', disk', i + 1)]_vars

C6_Witness ==
    /\ pc = "returned" /\ op = "uninstall" /\ err = "RemoveError"
    /\ Cardinality(DOMAIN conf) = 1
    /\ \E d \in Dirs : ~Exists(disk, d)

\* a step of the second loop of upgrade that fails
UpgradeFails == pc = "upgrade.loop" /\ pc' = "returned" /\ err' # "nil"

\* C7 as stated: when open, fetch or the build fails for project k, upgrade returns the
\* error, and the record of project k and of every later project is unchanged
C7_AsStated ==
    [][UpgradeFails =>
          \A k \in i..Len(projects) :
             projects[k].Name \in DOMAIN conf' /\ conf'[projects[k].Name] = projects[k]]_vars

\* C7, amended: upgrade takes the projects in the order given; when open, fetch (other than
\* "already up to date") or the build fails for project k it returns that error at once and
\* changes no record: the projects before k keep what their own update wrote, the later
\* projects that are not listed before k as well are as they were when the call started,
\* and nothing is fetched or built for a later project
C7_UpgradeInOrder ==
    [][pc = "upgrade.loop" =>
          LET p == projects[i] IN
          /\ \A k \in i..Len(projects) :
                ListedBefore(k, i) \/
                (projects[k].Name \in DOMAIN conf /\ conf[projects[k].Name] = projects[k])
          /\ \A k \in 1..(i - 1) :
                /\ projects[k].Name \in DOMAIN conf
                /\ [conf[projects[k].Name] EXCEPT !.Reference = 0]
                      = [projects[k] EXCEPT !.Reference = 0]
          /\ calls' # <<>>
          /\ \A n \in 1..Len(calls') : calls'[n].dir = p.Repository
          /\ disk' = disk
          /\ IF pc' = "returned" /\ err' # "nil"
             THEN /\ conf' = conf
                  /\ err' \in {"OpenError", "FetchError", "CommandError", "EmptyCommand"}
                  /\ err' = "OpenError" <=> ~Exists(disk, p.Repository)
                  /\ err' = "FetchError" <=> (Len(calls') = 2 /\ calls'[2].result = "fail")
                  /\ err' \in {"CommandError", "EmptyCommand"} => Len(calls') >= 2
                  /\ \A n \in 1..Len(calls') : calls'[n].kind # "head"
             ELSE /\ calls'[2].kind = "fetch" /\ calls'[2].result # "fail"
                  /\ calls'[3].kind = "exec" /\ calls'[3].argv = Fields(p.Build)
                  /\ calls'[4].kind = "head"
                  /\ conf' = IF calls'[4].rev = NoHead THEN conf
                             ELSE Put(conf, p.Name, [p EXCEPT !.Reference = calls'[4].rev])
                  /\ IF i < Len(projects)
                     THEN pc' = "upgrade.loop" /\ i' = i + 1 /\ projects' = projects
                     ELSE pc' = "returned" /\ err' = "nil"]_vars

C7_Witness ==
    /\ pc = "returned" /\ op = "upgrade" /\ err = "FetchError"
    /\ \E n, m \in DOMAIN conf : conf[n].Reference # conf[m].Reference

\* the step is a call of run with the words command
RunOf(command) == Ready /\ op' = "run" /\ \E runOk \in BOOLEAN : Run(command, runOk)

\* the registry has an entry whose directory does not exist
Stale(c, d, n) == n \in DOMAIN c /\ ~Exists(d, c[n].Repository)

\* C9: run on an entry whose directory does not exist returns the invalid-install error
\* without starting a process and leaves the entry as it is; such an entry leaves the
\* registry, or changes, only in the delete of uninstall
C9_StaleEntryStays ==
    [][/\ \A command \in RunInputs :
             (command # <<>> /\ Stale(conf, disk, command[1]) /\ RunOf(command))
             => /\ pc' = "returned"
                /\ err' = "InvalidInstall"
                /\ calls' = <<>>
                /\ conf' = conf
                /\ disk' = disk
       /\ \A n \in DOMAIN conf :
             (Stale(conf, disk, n) /\ (n \notin DOMAIN conf' \/ conf'[n] # conf[n]))
             => /\ pc = "uninstall.delete"
                /\ projects[i].Name = n
                /\ n \notin DOMAIN conf']_vars

C9_Witness ==
    /\ pc = "returned" /\ op = "run" /\ err = "InvalidInstall"
    /\ \E n \in DOMAIN conf : Stale(conf, disk, n)

\* the command line run hands to execute
CommandLine(c, command) == Join([command EXCEPT ![1] = c[command[1]].Execute], <<SP>>)

\* C10: run returns an error when the stored execute command followed by the extra
\* arguments is blank
C10_BlankCommandIsAnError ==
    [][\A command \in RunInputs :
          (/\ command # <<>>
           /\ command[1] \in DOMAIN conf
           /\ ~Stale(conf, disk, command[1])
           /\ Fields(CommandLine(conf, command)) = <<>>
           /\ RunOf(command))
          => pc' = "returned" /\ err' # "nil"]_vars

\* the project named first in command is installed and its directory exists
Runnable(c, d, command) ==
    command # <<>> /\ command[1] \in DOMAIN c /\ ~Stale(c, d, command[1])

\* C11: run of an installed project whose directory exists returns nil whatever became of
\* the child process (it could not be started, or it exited with a code other than 0),
\* and leaves the registry as it was
C11_RunSwallowsChildFailure ==
    [][\A command \in RunInputs :
          (Runnable(conf, disk, command) /\ RunOf(command))
          => /\ pc' = "returned"
             /\ err' = "nil"
             /\ conf' = conf]_vars

C11_Witness ==
    /\ pc = "returned" /\ op = "run" /\ err = "nil"
    /\ Len(calls) = 1 /\ calls[1].kind = "exec" /\ ~calls[1].ok

\* the step is an iteration of upgrade whose build succeeded and whose repository.Head()
\* then failed
HeadFailsAfterBuild ==
    /\ pc = "upgrade.loop"
    /\ Len(calls') = 4
    /\ calls'[3].kind = "exec" /\ calls'[3].ok
    /\ calls'[4] = HeadCall(projects[i].Repository, NoHead)

\* C17: in upgrade, when the build of a project succeeded and reading HEAD then fails, the
\* registry is left as it is, no error is returned for it, and upgrade goes on to the next
\* project, or returns nil after the last
C17_HeadFailureIsSkipped ==
    [][HeadFailsAfterBuild =>
          /\ conf' = conf
          /\ disk' = disk
          /\ IF i < Len(projects)
             THEN pc' = "upgrade.loop" /\ i' = i + 1 /\ projects' = projects
             ELSE pc' = "returned" /\ err' = "nil"]_vars

C17_Witness ==
    /\ pc = "upgrade.loop" /\ i = 2
    /\ Len(calls) = 4 /\ calls[4] = HeadCall(projects[1].Repository, NoHead)
    /\ projects[1].Name # projects[2].Name
    /\ conf[projects[1].Name] = projects[1]

\* C18: a name becomes a key of the registry only in a successful install of it and stops
\* being one only in the delete of an uninstall of it; run changes nothing in the registry;
\* upgrade, failing or not, adds and removes no key and changes nothing but the revision
\* of a project it was given the name of
C18_LifecycleAndUpgradeFrame ==
    [][/\ \A n \in DOMAIN conf' \ DOMAIN conf :
             AfterClone /\ err' = "nil" /\ n = args.name
       /\ \A n \in DOMAIN conf \ DOMAIN conf' :
             pc = "uninstall.delete" /\ op = "uninstall" /\ n = projects[i].Name
       /\ op' = "run" => conf' = conf
       /\ op' = "upgrade" =>
             /\ DOMAIN conf' = DOMAIN conf
             /\ \A n \in DOMAIN conf :
                   conf'[n] # conf[n] =>
                       /\ pc = "upgrade.loop"
                       /\ \E k \in 1..Len(args.names) : args.names[k] = n
                       /\ conf'[n].Repository = conf[n].Repository
                       /\ conf'[n].Url = conf[n].Url
                       /\ conf'[n].Build = conf[n].Build
                       /\ conf'[n].Execute = conf[n].Execute]_vars

C18_Witness ==
    /\ pc = "returned" /\ op = "upgrade" /\ err = "CommandError"
    /\ Cardinality(DOMAIN conf) = 2
    /\ \E n, m \in DOMAIN conf : conf[n].Reference # conf[m].Reference

\* C19: run of an installed project whose directory exists and whose execute command is
\* not blank starts exactly one process, interactively, in the directory of the project,
\* with the words of the execute command followed by the extra arguments, each of them
\* one argument
C19_RunArgumentVector ==
    [][\A command \in RunInputs :
          (/\ Runnable(conf, disk, command)
           /\ Fields(conf[command[1]].Execute) # <<>>
           /\ RunOf(command))
          => calls' = << [kind |-> "exec", dir |-> conf[command[1]].Repository,
                          argv |-> Fields(conf[command[1]].Execute) \o Tail(command),
                          interactive |-> TRUE, ok |-> calls'[1].ok] >>]_vars

\* C20: no two entries of the registry have the same repositoryPath
C20_OneDirectoryPerProject ==
    \A n, m \in DOMAIN conf : n # m => conf[n].Repository # conf[m].Repository

\* ----------------------------------------------------- claims on the process
\* the registry the next process loads, for the registry c this process holds
Reloaded(c) == Unmarshal(Marshal(c))

\* C4: when the operation has returned, with or without an error, and the process ends,
\* the persisted registry is the registry the operation left in memory (the removal of the
\* application directory not failing)
C4_ExitSavesRegistry ==
    [][DisplayDone(TRUE) => ReadConfig(file') = Reloaded(conf)]_vars

\* C8: jx run with a name that is not a key of the registry ends with the not-installed
\* error and exit code 1; no process is started, and the registry file and the
\* directories of the projects are as they were
C8_RunNotInstalled ==
    [][\A command \in CliRunInputs, runOk, removeOk \in BOOLEAN :
          (/\ command # <<>>
           /\ command[1] \notin (IF file.exists THEN DOMAIN file.projects ELSE {})
           /\ MainRun(command, runOk, removeOk))
          => /\ err' = "NotInstalled"
             /\ calls' = <<>>
             /\ exitCode' = 1
             /\ file' = file
             /\ disk' = disk
             /\ conf' = conf]_vars

C8_Witness ==
    /\ ~Alive /\ op = "run" /\ err = "NotInstalled" /\ exitCode = 1
    /\ file.exists

\* the step is conf.write() of the process
Saves == \E removeOk \in BOOLEAN : MainWrite(removeOk) \/ (err = "nil" /\ DisplayDone(removeOk))

C13_EmptySaveRemovesAll ==
    [][(conf = NoProjects /\ file.exists /\ Saves) =>
          (~file'.exists /\ ~appDir' /\ ReadConfig(file') = NoProjects)]_vars

\* the step ends a process that display ran a command for
Exits == mpc \in {"display", "write", "exit"} /\ mpc' = "exited"

\* C14: a process of install, upgrade or uninstall ends with exit code 0 only if the
\* operation has returned, without an error, and ends with exit code 1 whenever the
\* operation has returned an error, however the steps of the operation and the keys
\* interleave
C14_ExitCodeTellsOutcome ==
    [][Exits => /\ exitCode' = 0 => (pc = "returned" /\ err = "nil")
                /\ (pc = "returned" /\ err # "nil") => exitCode' = 1]_vars

\* ------------------------------------------------- claims on a lifecycle
\* C15: after a successful install of a name the registry did not hold, any number of
\* successful run and upgrade of that name, and a successful uninstall of it, the registry
\* is the mapping it was before the install, the directory of the project does not exist,
\* run of the name returns the not-installed error and install of the name is accepted
C15_LifecycleRestoresRegistry ==
    cycle.phase = "done" =>
        /\ conf = cycle.base
        /\ cycle.name \notin DOMAIN conf
        /\ Cardinality(DOMAIN conf) = Cardinality(DOMAIN cycle.base)
        /\ ~Exists(disk, cycle.directory)
        /\ \A extra \in RunExtras, runOk \in BOOLEAN :
              RunCommand(conf, disk, <<cycle.name>> \o extra, runOk).err = "NotInstalled"
        /\ ~Installed(conf, cycle.name)
        /\ Clone(disk, cycle.directory, TRUE).err = "nil"

C15_Witness ==
    /\ cycle.phase = "done" /\ cycle.ran /\ cycle.upgraded
    /\ cycle.base # NoProjects

\* C16: after a quit key the operation still runs to its end, and conf.write() and the
\* end of the process happen only once the operation has returned, so that the registry
\* is not saved while the operation can still change it
C16_SaveAfterOperation ==
    [][(mpc \in {"write", "exit"} /\ mpc' # mpc) => pc = "returned"]_vars

\* ------------------------------------- claims on calls without outside changes
\* between two calls, the directory of every entry of the registry c exists in d
Consistent(c, d) == \A n \in DOMAIN c : Exists(d, c[n].Repository)

\* C21, the part on the entries: between two calls the directory of every entry exists
C21_EntriesHaveDirectory == Ready => Consistent(conf, disk)

\* C21: when nothing but jx changes the directories, between two calls the directory of
\* every entry of the registry exists, and an install that fails does not leave the
\* directory it cloned
C21_RegistryMatchesDisk ==
    [][/\ pc' \in {"idle", "returned"} => Consistent(conf', disk')
       /\ (AfterClone /\ err' # "nil") => ~Exists(disk', args.directory)]_vars
====
